---- MODULE Spec2Model ----
(***************************************************************************)
(* Model of the Monaco/Pyodide/Jedi editor: the client bridge of           *)
(* components/MonacoEditor.tsx (callWorker, the worker lifecycle effect,   *)
(* the readiness gate, the providers) and the worker message handler of    *)
(* the Jedi worker (initializeJedi, getRuntime, the four analysis calls).  *)
(*                                                                         *)
(* Two event loops exchange serialized messages over two FIFO channels.    *)
(* Every `await` of the worker is a point where its event loop may take    *)
(* another message, so each async handler is a small process with a pc.    *)
(* The embedded runtime is an opaque collaborator: a call to it is issued, *)
(* and later returns or throws.                                            *)
(*                                                                         *)
(* Specifications: Spec (the component and the workers it spawns),         *)
(* UnknownSpec (Spec with a caller passing a type outside the five kinds), *)
(* WorkerSpec (one worker under any sequence of requests), WorkerFairSpec  *)
(* (the same with its event loop running), RenderSpec (getHover's text     *)
(* and get_completions' cap on their own inputs).                          *)
(***************************************************************************)
EXTENDS Integers, Sequences, FiniteSets, TLC

\* Bounds of the model.
MaxRequests == 3   \* requests allocated by one bridge (requestIdCounter)
MaxWorkers == 2    \* workers spawned during one component lifetime
MaxDelivered == 2  \* requests delivered to the worker in the runs checked for liveness
MaxText == 1       \* characters in one field of a hover result
MaxCandidates == 52  \* candidates the inference hands to get_completions

\* const MAX_COMPLETIONS = 50.
MAX_COMPLETIONS == 50

\* Input domains.
Languages == {"python", "plaintext"}
Codes == {1, 2}
AnalysisTypes == {"analyze", "completion", "hover", "definition"}
KnownTypes == {"initialize"} \cup AnalysisTypes
\* Cursor payloads as a caller may pass them; line 0 and column -1 are the
\* out-of-range values the worker clamps.
CursorPayloads == {[code |-> 1, line |-> 1, column |-> 0], [code |-> 2, line |-> 0, column |-> -1]}
CodePayloads == {[code |-> c] : c \in Codes}
NoPayload == [none |-> TRUE]

VARIABLES
    \* ---- UI thread (MonacoEditor component) ----
    phase,               \* "new" | "mounted" | "unmounted"
    language,            \* the language prop of the last render
    editorRef,           \* TRUE once handleEditorDidMount has stored the editor
    workerRef,           \* 0 = null, n = the n-th worker spawned
    isWorkerReadyState,  \* the React state cell written by setIsWorkerReady
    isWorkerReady,       \* the value of that state seen by the last render
    workerReadyRef,      \* workerReadyRef.current
    requestIdCounter,    \* requestIdCounter.current
    pendingRequests,     \* keys of the pendingRequests map (one resolver each)
    timers,              \* requestIds whose timeout is armed
    settled,             \* requestId -> values passed to the promise's resolve
    providerDisposables, \* provider kinds whose disposables are held
    registry,            \* monaco's registry: provider kind -> live providers
    markers,             \* diagnostics last given to setModelMarkers
    document,            \* the editor's content: the value of the last change (0 = empty)
    adapterResult,       \* the last adapter call: "none", "default" (its gate returned the
                         \* default), "null" (callWorker returned null), "sent" (posted)
    workersSpawned,      \* number of `new PyrightWorker()` so far
    \* ---- worker (module state of the Jedi worker) ----
    pyodide,             \* 0 = null, k = the k-th runtime instance loaded
    jediInitialized,
    loadPyodideFn,       \* FALSE = null
    runtimes,            \* instance k -> 0 loaded, 1 micropip, 2 jedi+parso, 3 bootstrap defined
    globals,             \* pyodide.globals: user_code, user_line, user_column
    handlers,            \* message handlers suspended at an await, with their locals
    \* ---- channels ----
    toWorker,            \* worker.postMessage queue
    toClient,            \* workerCtx.postMessage queue
    \* ---- one call of getHover and one of getCompletions, seen from inside ----
    parsed,              \* JSON.parse of what get_hover returned (NullData: null)
    hoverPayload,        \* what getHover returned
    completions,         \* script.complete(line, column): the candidates
    results,             \* the list getCompletions returned
    returned             \* which of the two calls have returned

clientVars == <<phase, language, editorRef, workerRef, isWorkerReadyState, isWorkerReady,
                workerReadyRef, requestIdCounter, pendingRequests, timers, settled,
                providerDisposables, registry, markers, document, adapterResult,
                workersSpawned>>
workerVars == <<pyodide, jediInitialized, loadPyodideFn, runtimes, globals, handlers>>
renderVars == <<parsed, hoverPayload, completions, results, returned>>
vars == <<clientVars, workerVars, toWorker, toClient, renderVars>>

----------------------------------------------------------------------------
\* Values

\* The documented "no result" values: an empty list, and null for hover.
EmptyList == [tag |-> "list", items |-> <<>>]
NullData == [tag |-> "null", items |-> <<>>]
DefaultData(type) == IF type = "hover" THEN NullData ELSE EmptyList

\* The response type the handler gives each request type.
ResponseType(type) ==
    CASE type = "initialize" -> "initialized"
      [] type = "analyze" -> "analysis"
      [] OTHER -> type

Max(a, b) == IF a >= b THEN a ELSE b

UnsetGlobals == [user_code |-> 0, user_line |-> 0, user_column |-> -1]

\* Math.max(1, line), Math.max(0, column) of getCompletions/getHover/getDefinitions;
\* analyzeCode sets user_code alone.
SetGlobals(g, type, data) ==
    IF type = "analyze"
    THEN [g EXCEPT !.user_code = data.code]
    ELSE [user_code |-> data.code, user_line |-> Max(1, data.line), user_column |-> Max(0, data.column)]

\* What the bootstrap's get_* functions compute is a function of the globals they
\* are called with: the value is tagged with the arguments read.
PythonResult(type, g) ==
    CASE type = "analyze" -> [tag |-> "list", items |-> <<[code |-> g.user_code]>>]
      [] type = "hover" ->
           [tag |-> "hover", items |-> <<[code |-> g.user_code, line |-> g.user_line, column |-> g.user_column]>>]
      [] OTHER ->
           [tag |-> "list", items |-> <<[code |-> g.user_code, line |-> g.user_line, column |-> g.user_column]>>]

----------------------------------------------------------------------------
\* Worker

\* Mutant of getRuntime: the jediInitialized flag is not consulted.
getRuntimeLoadedOnly == pyodide

\* getRuntime(): the runtime, or null (0) unless loaded and initialized.
getRuntime == IF pyodide = 0 \/ ~jediInitialized THEN 0 ELSE pyodide

\* respond(message): workerCtx.postMessage.
respond(message) == toClient' = Append(toClient, message)

InitializedOk(requestId) == [type |-> "initialized", requestId |-> requestId, success |-> TRUE]
InitializedFailed(requestId) ==
    [type |-> "initialized", requestId |-> requestId, success |-> FALSE, error |-> "error"]
\* Mutant of DataResponse: the request's id is not copied into the response.
DataResponseNoId(type, requestId, data) ==
    [type |-> ResponseType(type), requestId |-> <<type, 0>>, data |-> data]
DataResponse(type, requestId, data) ==
    [type |-> ResponseType(type), requestId |-> requestId, data |-> data]

WorkerAlive == workerRef # 0

\* Mutant of HandleInitialize: initializeJedi without its early return.
HandleInitializeNoGuard ==
    /\ workerRef # 0 /\ toWorker # <<>>
    /\ Head(toWorker).type = "initialize"
    /\ toWorker' = Tail(toWorker)
    /\ handlers' = handlers \cup
          {[requestId |-> Head(toWorker).requestId, type |-> "initialize",
            pc |-> IF loadPyodideFn THEN "load" ELSE "import", target |-> 0,
                       data |-> NoPayload]}
    /\ UNCHANGED <<clientVars, pyodide, jediInitialized, loadPyodideFn, runtimes, globals, toClient>>
    /\ UNCHANGED renderVars

\* case "initialize": initializeJedi() up to its first await. Already initialized:
\* it returns at once and the handler responds success. Otherwise the module import
\* is awaited, or, with the loader cached, the loader call.
HandleInitialize ==
    /\ WorkerAlive /\ toWorker # <<>>
    /\ Head(toWorker).type = "initialize"
    /\ LET msg == Head(toWorker) IN
       /\ toWorker' = Tail(toWorker)
       /\ IF jediInitialized
          THEN /\ respond(InitializedOk(msg.requestId))
               /\ UNCHANGED handlers
          ELSE /\ handlers' = handlers \cup
                     {[requestId |-> msg.requestId, type |-> "initialize",
                       pc |-> IF loadPyodideFn THEN "load" ELSE "import", target |-> 0,
                       data |-> NoPayload]}
               /\ UNCHANGED toClient
    /\ UNCHANGED <<clientVars, pyodide, jediInitialized, loadPyodideFn, runtimes, globals>>
    /\ UNCHANGED renderVars

\* The handler's reply when initializeJedi throws (the catch of case "initialize").
InitFailed(h) ==
    /\ respond(InitializedFailed(h.requestId))
    /\ handlers' = handlers \ {h}
    /\ UNCHANGED <<pyodide, jediInitialized, loadPyodideFn, runtimes>>

\* await import(PYODIDE_MODULE_URL) settles: the loader is cached and called.
ImportDone(h, ok) ==
    /\ h.pc = "import"
    /\ IF ok
       THEN /\ loadPyodideFn' = TRUE
            /\ handlers' = (handlers \ {h}) \cup {[h EXCEPT !.pc = "load"]}
            /\ UNCHANGED <<toClient, pyodide, jediInitialized, runtimes>>
       ELSE InitFailed(h)

\* pyodide = await loader(...) settles: a fresh instance replaces the global, and
\* loadPackage("micropip") is called on it.
LoadDone(h, ok) ==
    /\ h.pc = "load"
    /\ IF ok
       THEN /\ runtimes' = Append(runtimes, 0)
            /\ pyodide' = Len(runtimes) + 1
            /\ handlers' = (handlers \ {h}) \cup
                  {[h EXCEPT !.pc = "micropip", !.target = Len(runtimes) + 1]}
            /\ UNCHANGED <<toClient, jediInitialized, loadPyodideFn>>
       ELSE InitFailed(h)

\* await pyodide.loadPackage("micropip") settles; runPythonAsync(INSTALL_SCRIPT) is
\* called on whatever the global pyodide is now.
MicropipDone(h, ok) ==
    /\ h.pc = "micropip"
    /\ IF ok
       THEN /\ runtimes' = [runtimes EXCEPT ![h.target] = Max(@, 1)]
            /\ handlers' = (handlers \ {h}) \cup {[h EXCEPT !.pc = "install", !.target = pyodide]}
            /\ UNCHANGED <<toClient, pyodide, jediInitialized, loadPyodideFn>>
       ELSE InitFailed(h)

\* await runPythonAsync(INSTALL_SCRIPT) settles. `import micropip` needs micropip
\* in the instance the script ran in. Then the bootstrap is run on the global pyodide.
InstallDone(h, ok) ==
    /\ h.pc = "install"
    /\ IF ok /\ runtimes[h.target] >= 1
       THEN /\ runtimes' = [runtimes EXCEPT ![h.target] = Max(@, 2)]
            /\ handlers' = (handlers \ {h}) \cup {[h EXCEPT !.pc = "bootstrap", !.target = pyodide]}
            /\ UNCHANGED <<toClient, pyodide, jediInitialized, loadPyodideFn>>
       ELSE InitFailed(h)

\* await runPythonAsync(createJediBootstrap(...)) settles. `import jedi` needs the
\* packages in the instance it ran in. jediInitialized = true; the handler responds.
BootstrapDone(h, ok) ==
    /\ h.pc = "bootstrap"
    /\ IF ok /\ runtimes[h.target] >= 2
       THEN /\ runtimes' = [runtimes EXCEPT ![h.target] = 3]
            /\ jediInitialized' = TRUE
            /\ respond(InitializedOk(h.requestId))
            /\ handlers' = handlers \ {h}
            /\ UNCHANGED <<pyodide, loadPyodideFn>>
       ELSE InitFailed(h)

\* One awaited step of initializeJedi settles, fulfilled (ok) or rejected.
InitStep ==
    /\ WorkerAlive
    /\ \E h \in handlers, ok \in BOOLEAN :
         /\ h.type = "initialize"
         /\ CASE h.pc = "import" -> ImportDone(h, ok)
              [] h.pc = "load" -> LoadDone(h, ok)
              [] h.pc = "micropip" -> MicropipDone(h, ok)
              [] h.pc = "install" -> InstallDone(h, ok)
              [] h.pc = "bootstrap" -> BootstrapDone(h, ok)
    /\ UNCHANGED <<clientVars, globals, toWorker>>
    /\ UNCHANGED renderVars

\* Mutant of HandleAnalysis: without a runtime the analysis call starts the
\* bootstrap itself before answering with the default.
HandleAnalysisLazyInit ==
    /\ workerRef # 0 /\ toWorker # <<>>
    /\ Head(toWorker).type \in AnalysisTypes
    /\ LET msg == Head(toWorker)
           runtime == getRuntime
       IN
       /\ toWorker' = Tail(toWorker)
       /\ IF runtime = 0
          THEN /\ respond(DataResponse(msg.type, msg.requestId, DefaultData(msg.type)))
               /\ handlers' = handlers \cup
                     {[requestId |-> msg.requestId, type |-> "initialize",
                       pc |-> IF loadPyodideFn THEN "load" ELSE "import", target |-> 0,
                       data |-> NoPayload]}
               /\ UNCHANGED globals
          ELSE /\ globals' = SetGlobals(globals, msg.type, msg.data)
               /\ handlers' = handlers \cup
                     {[requestId |-> msg.requestId, type |-> msg.type, pc |-> "run", target |-> runtime,
                       data |-> msg.data]}
               /\ UNCHANGED toClient
    /\ UNCHANGED <<clientVars, pyodide, jediInitialized, loadPyodideFn, runtimes>>
    /\ UNCHANGED renderVars

\* analyzeCode / getCompletions / getHover / getDefinitions up to their await:
\* without a runtime the default is returned and the handler responds at once;
\* with one the arguments are stored in the globals and runPythonAsync is called.
HandleAnalysis ==
    /\ WorkerAlive /\ toWorker # <<>>
    /\ Head(toWorker).type \in AnalysisTypes
    /\ LET msg == Head(toWorker)
           runtime == getRuntime
       IN
       /\ toWorker' = Tail(toWorker)
       /\ IF runtime = 0
          THEN /\ respond(DataResponse(msg.type, msg.requestId, DefaultData(msg.type)))
               /\ UNCHANGED <<handlers, globals>>
          ELSE /\ globals' = SetGlobals(globals, msg.type, msg.data)
               /\ handlers' = handlers \cup
                     {[requestId |-> msg.requestId, type |-> msg.type, pc |-> "run", target |-> runtime,
                       data |-> msg.data]}
               /\ UNCHANGED toClient
    /\ UNCHANGED <<clientVars, pyodide, jediInitialized, loadPyodideFn, runtimes>>
    /\ UNCHANGED renderVars

\* Mutant of RunDone: no catch around the runtime call, so a call that throws ends
\* the handler without a response.
RunDoneThrowUnanswered ==
    /\ WorkerAlive
    /\ \E h \in handlers, ok \in BOOLEAN :
         /\ h.pc = "run"
         /\ IF ok /\ runtimes[h.target] = 3
            THEN respond(DataResponse(h.type, h.requestId, PythonResult(h.type, globals)))
            ELSE UNCHANGED toClient
         /\ handlers' = handlers \ {h}
    /\ UNCHANGED <<clientVars, pyodide, jediInitialized, loadPyodideFn, runtimes, globals, toWorker>>
    /\ UNCHANGED renderVars
\* The awaited runPythonAsync of an analysis call settles. The Python function reads
\* the globals as they are when it runs. It returns a value (ok), or it returns its
\* own empty result, or the call throws and the catch returns the default; the
\* call throws when the bootstrap's functions are not defined in that instance.
RunDone ==
    /\ WorkerAlive
    /\ \E h \in handlers, ok \in BOOLEAN :
         /\ h.pc = "run"
         /\ respond(DataResponse(h.type, h.requestId,
                IF ok /\ runtimes[h.target] = 3
                THEN PythonResult(h.type, globals)
                ELSE DefaultData(h.type)))
         /\ handlers' = handlers \ {h}
    /\ UNCHANGED <<clientVars, pyodide, jediInitialized, loadPyodideFn, runtimes, globals, toWorker>>
    /\ UNCHANGED renderVars

\* default: the request is logged and dropped.
HandleUnknown ==
    /\ WorkerAlive /\ toWorker # <<>>
    /\ Head(toWorker).type \notin KnownTypes
    /\ toWorker' = Tail(toWorker)
    /\ UNCHANGED <<clientVars, workerVars, toClient>>
    /\ UNCHANGED renderVars

\* Handlers that have called runPythonAsync and not yet got its result.
RuntimeCallsInProgress == {h \in handlers : h.pc \in {"install", "bootstrap", "run"}}

WorkerNext == HandleInitialize \/ InitStep \/ HandleAnalysis \/ RunDone \/ HandleUnknown

----------------------------------------------------------------------------
\* getHover's rendering and get_completions' cap, on their own inputs

\* Strings are sequences of characters.
Chars == {"a", "b"}
Texts == UNION {[1..n -> Chars] : n \in 0..MaxText}

\* What get_hover can hand back as JSON: null, or the five string fields (the
\* description is not used by getHover).
HoverResults ==
    {[name |-> n, type |-> t, signature |-> s, docstring |-> d] :
        n \in Texts, t \in Texts, s \in Texts, d \in Texts}

\* The candidates of script.complete, told apart by their position.
CandidateLists == {[i \in 1..n |-> i] : n \in 0..MaxCandidates}

\* Boolean(s) for a string: only the empty string is falsy.
Boolean(s) == s # <<>>

\* Array.prototype.join.
join(parts, separator) ==
    LET joined[k \in 0..Len(parts)] ==
            IF k = 0 THEN <<>>
            ELSE IF k = 1 THEN parts[1]
            ELSE joined[k - 1] \o separator \o parts[k]
    IN joined[Len(parts)]

\* "\n\n"
BlankLine == <<"\n", "\n">>

\* Mutant of HoverValue: the empty fields are not filtered out before the join.
HoverValueNoFilter(p) ==
    LET header == <<"*", "*">> \o p.name \o <<"*", "*", " ", "(">> \o p.type \o <<")">>
        details == join(<<p.signature, p.docstring>>, BlankLine)
    IN IF Boolean(details) THEN header \o BlankLine \o details ELSE header

\* The value getHover builds from the parsed result: header, details, value.
HoverValue(p) ==
    LET header == <<"*", "*">> \o p.name \o <<"*", "*", " ", "(">> \o p.type \o <<")">>
        details == join(SelectSeq(<<p.signature, p.docstring>>, Boolean), BlankLine)
    IN IF Boolean(details) THEN header \o BlankLine \o details ELSE header

\* Mutant of get_completions: the candidates are not sliced.
get_completionsNoSlice(candidates, ok) ==
    IF ok
    THEN [i \in DOMAIN candidates |-> [name |-> candidates[i]]]
    ELSE <<>>

\* get_completions of the bootstrap, from the candidates on: each of the first
\* MAX_COMPLETIONS candidates is converted and appended; an exception raised on
\* the way (ok = FALSE) makes the function return the empty list.
get_completions(candidates, ok) ==
    IF ok
    THEN LET sliced == SubSeq(candidates, 1,
                           IF Len(candidates) < MAX_COMPLETIONS THEN Len(candidates) ELSE MAX_COMPLETIONS)
         IN [i \in DOMAIN sliced |-> [name |-> sliced[i]]]
    ELSE <<>>

\* Neither call has been made.
NoCall ==
    /\ parsed = NullData
    /\ hoverPayload = NullData
    /\ completions = <<>>
    /\ results = <<>>
    /\ returned = {}

\* getHover from the JSON.parse on: null stays null, a thrown error is caught and
\* gives null, anything else is rendered to markdown.
GetHover ==
    /\ getRuntime # 0
    /\ "getHover" \notin returned
    /\ \E ok \in BOOLEAN :
         hoverPayload' = IF ok /\ parsed # NullData
                         THEN [contents |-> [kind |-> "markdown", value |-> HoverValue(parsed)]]
                         ELSE NullData
    /\ returned' = returned \cup {"getHover"}
    /\ UNCHANGED <<clientVars, workerVars, toWorker, toClient, parsed, completions, results>>

\* getCompletions: the list get_completions returned, parsed back.
GetCompletions ==
    /\ getRuntime # 0
    /\ "getCompletions" \notin returned
    /\ \E ok \in BOOLEAN : results' = get_completions(completions, ok)
    /\ returned' = returned \cup {"getCompletions"}
    /\ UNCHANGED <<clientVars, workerVars, toWorker, toClient, parsed, hoverPayload, completions>>
\* A freshly started worker: the module-level lets and empty message queues.
FreshWorker ==
    /\ pyodide = 0
    /\ jediInitialized = FALSE
    /\ loadPyodideFn = FALSE
    /\ runtimes = <<>>
    /\ globals = UnsetGlobals
    /\ handlers = {}
    /\ toWorker = <<>>
    /\ toClient = <<>>

\* worker.terminate(): the worker's state and both message queues are discarded.
terminate ==
    /\ pyodide' = 0
    /\ jediInitialized' = FALSE
    /\ loadPyodideFn' = FALSE
    /\ runtimes' = <<>>
    /\ globals' = UnsetGlobals
    /\ handlers' = {}
    /\ toWorker' = <<>>
    /\ toClient' = <<>>

----------------------------------------------------------------------------
\* Client bridge

\* The value a timed-out call resolves to.
NullResponse == [type |-> "null"]

ProviderKinds == {"completion", "hover"}

\* Mutant of callWorker: the counter is read but not advanced.
callWorkerNoIncrement(worker, type, payload) ==
    IF worker = 0
    THEN UNCHANGED <<requestIdCounter, pendingRequests, timers, settled, toWorker>>
    ELSE LET requestId == <<type, requestIdCounter + 1>> IN
         /\ requestIdCounter' = requestIdCounter
         /\ timers' = timers \cup {requestId}
         /\ pendingRequests' = pendingRequests \cup {requestId}
         /\ settled' = settled @@ (requestId :> <<>>)
         /\ toWorker' = Append(toWorker, [type |-> type, data |-> payload, requestId |-> requestId])

\* Mutant of callWorker: the test for a missing worker is gone.
callWorkerNoGuard(worker, type, payload) ==
    LET requestId == <<type, requestIdCounter + 1>> IN
    /\ requestIdCounter' = requestIdCounter + 1
    /\ timers' = timers \cup {requestId}
    /\ pendingRequests' = pendingRequests \cup {requestId}
    /\ settled' = settled @@ (requestId :> <<>>)
    /\ toWorker' = Append(toWorker, [type |-> type, data |-> payload, requestId |-> requestId])
\* callWorker(type, payload) with workerRef.current = worker. No worker: null is
\* returned and nothing else happens. Otherwise the counter is advanced, the
\* timeout armed, the resolver stored and the request posted.
callWorker(worker, type, payload) ==
    IF worker = 0
    THEN UNCHANGED <<requestIdCounter, pendingRequests, timers, settled, toWorker>>
    ELSE LET requestId == <<type, requestIdCounter + 1>> IN
         /\ requestIdCounter' = requestIdCounter + 1
         /\ timers' = timers \cup {requestId}
         /\ pendingRequests' = pendingRequests \cup {requestId}
         /\ settled' = settled @@ (requestId :> <<>>)
         /\ toWorker' = Append(toWorker, [type |-> type, data |-> payload, requestId |-> requestId])

\* updateDiagnostics(diagnostics): the markers are replaced once the editor is stored.
updateDiagnostics(diagnostics) ==
    IF editorRef THEN markers' = diagnostics ELSE UNCHANGED markers

\* What runs when the promise of requestId is resolved with response: the first
\* resolve settles it; handleEditorChange's then() applies an analysis response.
Resolve(requestId, response) ==
    /\ settled' = [settled EXCEPT ![requestId] = Append(@, response)]
    /\ IF settled[requestId] = <<>> /\ requestId[1] = "analyze" /\ response.type = "analysis"
       THEN updateDiagnostics(response.data.items)
       ELSE UNCHANGED markers

\* Mutant of TimeoutFire: the callback resolves to null without deleting the entry.
TimeoutFireKeepsEntry(requestId) ==
    /\ requestId \in timers
    /\ timers' = timers \ {requestId}
    /\ IF requestId \in pendingRequests
       THEN /\ UNCHANGED pendingRequests
            /\ Resolve(requestId, NullResponse)
       ELSE UNCHANGED <<pendingRequests, settled, markers>>
    /\ UNCHANGED <<phase, language, editorRef, workerRef, isWorkerReadyState, isWorkerReady,
                   workerReadyRef, requestIdCounter, providerDisposables, registry, document,
                   adapterResult, workersSpawned, workerVars, toWorker, toClient>>
    /\ UNCHANGED renderVars

\* The setTimeout callback of callWorker.
TimeoutFire(requestId) ==
    /\ requestId \in timers
    /\ timers' = timers \ {requestId}
    /\ IF requestId \in pendingRequests
       THEN /\ pendingRequests' = pendingRequests \ {requestId}
            /\ Resolve(requestId, NullResponse)
       ELSE UNCHANGED <<pendingRequests, settled, markers>>
    /\ UNCHANGED <<phase, language, editorRef, workerRef, isWorkerReadyState, isWorkerReady,
                   workerReadyRef, requestIdCounter, providerDisposables, registry, document,
                   adapterResult, workersSpawned, workerVars, toWorker, toClient>>
    /\ UNCHANGED renderVars

Timeout == \E requestId \in timers : TimeoutFire(requestId)

\* Mutant of OnMessage: any initialized message marks the worker ready.
OnMessageReadyAlways(message) ==
    /\ IF message.requestId \in pendingRequests
       THEN /\ pendingRequests' = pendingRequests \ {message.requestId}
            /\ timers' = timers \ {message.requestId}
            /\ Resolve(message.requestId, message)
       ELSE UNCHANGED <<pendingRequests, timers, settled, markers>>
    /\ IF message.type = "initialized"
       THEN isWorkerReadyState' = TRUE
       ELSE UNCHANGED isWorkerReadyState

\* Mutant of OnMessage: a response resolves the oldest pending call, as if responses
\* arrived in request order, instead of the call stored under its requestId.
OnMessageOldestPending(message) ==
    /\ IF pendingRequests # {}
       THEN LET oldest == CHOOSE r \in pendingRequests : \A q \in pendingRequests : r[2] <= q[2] IN
            /\ pendingRequests' = pendingRequests \ {oldest}
            /\ timers' = timers \ {oldest}
            /\ Resolve(oldest, message)
       ELSE UNCHANGED <<pendingRequests, timers, settled, markers>>
    /\ IF message.type = "initialized" /\ "success" \in DOMAIN message
       THEN isWorkerReadyState' = message.success
       ELSE UNCHANGED isWorkerReadyState
\* Mutant of OnMessage: the ready state is set inside the pending-entry branch, so
\* an initialized message whose call has timed out is ignored.
OnMessageReadyIfPending(message) ==
    IF message.requestId \in pendingRequests
    THEN /\ pendingRequests' = pendingRequests \ {message.requestId}
         /\ timers' = timers \ {message.requestId}
         /\ Resolve(message.requestId, message)
         /\ IF message.type = "initialized" /\ "success" \in DOMAIN message
            THEN isWorkerReadyState' = message.success
            ELSE UNCHANGED isWorkerReadyState
    ELSE UNCHANGED <<pendingRequests, timers, settled, markers, isWorkerReadyState>>
\* worker.onmessage: the resolver stored under the message's requestId, if any, is
\* removed and called (it clears its timeout and resolves the promise); an
\* initialized message sets the ready state to its success.
OnMessage(message) ==
    /\ IF message.requestId \in pendingRequests
       THEN /\ pendingRequests' = pendingRequests \ {message.requestId}
            /\ timers' = timers \ {message.requestId}
            /\ Resolve(message.requestId, message)
       ELSE UNCHANGED <<pendingRequests, timers, settled, markers>>
    /\ IF message.type = "initialized" /\ "success" \in DOMAIN message
       THEN isWorkerReadyState' = message.success
       ELSE UNCHANGED isWorkerReadyState

ClientReceive ==
    /\ workerRef # 0 /\ toClient # <<>>
    /\ OnMessage(Head(toClient))
    /\ toClient' = Tail(toClient)
    /\ UNCHANGED <<phase, language, editorRef, workerRef, isWorkerReady, workerReadyRef,
                   requestIdCounter, providerDisposables, registry, document, adapterResult,
                   workersSpawned, workerVars, toWorker>>
    /\ UNCHANGED renderVars

----------------------------------------------------------------------------
\* Component lifecycle

Held(kind) == Cardinality({i \in DOMAIN providerDisposables : providerDisposables[i] = kind})

\* disposeProviders(): every held disposable removes its provider from the registry.
disposeProviders ==
    /\ registry' = [k \in ProviderKinds |-> registry[k] - Held(k)]
    /\ providerDisposables' = <<>>

\* registerProviders(monaco): dispose what is held, register one provider of each kind.
registerProviders ==
    /\ registry' = [k \in ProviderKinds |-> registry[k] - Held(k) + 1]
    /\ providerDisposables' = <<"completion", "hover">>

\* The body of the lifecycle effect for python: a new worker is attached and an
\* initialize call is made on it.
Spawn ==
    /\ workersSpawned' = workersSpawned + 1
    /\ workerRef' = workersSpawned + 1
    /\ callWorker(workersSpawned + 1, "initialize", NoPayload)

\* Mutant of Cleanup: the ready state is not reset.
CleanupKeepsReady ==
    /\ pendingRequests' = {}
    /\ UNCHANGED isWorkerReadyState
    /\ disposeProviders
    /\ terminate
    /\ workerRef' = 0
\* The cleanup the lifecycle effect returns.
Cleanup ==
    /\ pendingRequests' = {}
    /\ isWorkerReadyState' = FALSE
    /\ disposeProviders
    /\ terminate
    /\ workerRef' = 0

\* First render and its effects, with the language prop the parent gives.
Mount(lang) ==
    /\ phase = "new"
    /\ phase' = "mounted"
    /\ language' = lang
    /\ IF lang # "python"
       THEN /\ disposeProviders
            /\ UNCHANGED <<workersSpawned, workerRef, requestIdCounter, pendingRequests, timers,
                           settled, toWorker>>
       ELSE /\ Spawn
            /\ UNCHANGED <<providerDisposables, registry>>
    /\ workerReadyRef' = isWorkerReady
    /\ UNCHANGED <<editorRef, isWorkerReadyState, isWorkerReady, markers, document, adapterResult,
                   workerVars, toClient>>
    /\ UNCHANGED renderVars

\* A render with another language prop: the render sees the ready state, the old
\* effect's cleanup runs (it exists when the old language was python), then the
\* effect body for the new language, then the effect copying isWorkerReady to the ref.
LanguageChange(lang) ==
    /\ phase = "mounted"
    /\ lang # language
    /\ lang = "python" => workersSpawned < MaxWorkers /\ requestIdCounter < MaxRequests
    /\ language' = lang
    /\ isWorkerReady' = isWorkerReadyState
    /\ workerReadyRef' = isWorkerReadyState
    /\ IF language = "python"
       THEN /\ Cleanup
            /\ UNCHANGED <<requestIdCounter, timers, settled, workersSpawned>>
       ELSE IF lang = "python"
       THEN /\ Spawn
            /\ UNCHANGED <<isWorkerReadyState, providerDisposables, registry, workerVars, toClient>>
       ELSE /\ disposeProviders
            /\ UNCHANGED <<isWorkerReadyState, workersSpawned, workerRef, requestIdCounter,
                           pendingRequests, timers, settled, workerVars, toWorker, toClient>>
    /\ UNCHANGED <<phase, editorRef, markers, document, adapterResult>>
    /\ UNCHANGED renderVars

\* The component is unmounted: the cleanup of the current effect runs.
Unmount ==
    /\ phase = "mounted"
    /\ phase' = "unmounted"
    /\ IF language = "python"
       THEN Cleanup
       ELSE UNCHANGED <<pendingRequests, isWorkerReadyState, providerDisposables, registry,
                        workerVars, toWorker, toClient, workerRef>>
    /\ UNCHANGED <<language, editorRef, isWorkerReady, workerReadyRef, requestIdCounter, timers,
                   settled, markers, document, adapterResult, workersSpawned>>
    /\ UNCHANGED renderVars

\* The re-render a setIsWorkerReady call schedules.
Render ==
    /\ phase = "mounted"
    /\ isWorkerReady # isWorkerReadyState
    /\ isWorkerReady' = isWorkerReadyState
    /\ UNCHANGED <<phase, language, editorRef, workerRef, isWorkerReadyState, workerReadyRef,
                   requestIdCounter, pendingRequests, timers, settled, providerDisposables,
                   registry, markers, document, adapterResult, workersSpawned, workerVars,
                   toWorker, toClient>>
    /\ UNCHANGED renderVars

\* useEffect(() => { workerReadyRef.current = isWorkerReady }, [isWorkerReady]).
SyncReadyRef ==
    /\ phase = "mounted"
    /\ workerReadyRef # isWorkerReady
    /\ workerReadyRef' = isWorkerReady
    /\ UNCHANGED <<phase, language, editorRef, workerRef, isWorkerReadyState, isWorkerReady,
                   requestIdCounter, pendingRequests, timers, settled, providerDisposables,
                   registry, markers, document, adapterResult, workersSpawned, workerVars,
                   toWorker, toClient>>
    /\ UNCHANGED renderVars

\* handleEditorDidMount(editor, monaco).
EditorDidMount ==
    /\ phase = "mounted"
    /\ ~editorRef
    /\ editorRef' = TRUE
    /\ IF language = "python" THEN registerProviders ELSE UNCHANGED <<providerDisposables, registry>>
    /\ UNCHANGED <<phase, language, workerRef, isWorkerReadyState, isWorkerReady, workerReadyRef,
                   requestIdCounter, pendingRequests, timers, settled, markers, document,
                   adapterResult, workersSpawned, workerVars, toWorker, toClient>>
    /\ UNCHANGED renderVars

----------------------------------------------------------------------------
\* Editor integration adapters

\* Payloads the providers build: lineNumber >= 1 and column - 1 >= 0.
EditorPayloads == {[code |-> c, line |-> 1, column |-> 0] : c \in Codes}

\* The readiness gate of a provider, then its callWorker.
ProviderCall(kind, payload) ==
    IF ~workerReadyRef
    THEN /\ adapterResult' = "default"
         /\ UNCHANGED <<requestIdCounter, pendingRequests, timers, settled, toWorker>>
    ELSE /\ callWorker(workerRef, kind, payload)
         /\ adapterResult' = IF workerRef = 0 THEN "null" ELSE "sent"

\* provideCompletionItems(model, position), called by monaco on a registered provider.
ProvideCompletionItems ==
    /\ phase = "mounted" /\ editorRef /\ language = "python"
    /\ registry["completion"] > 0
    /\ requestIdCounter < MaxRequests
    /\ \E payload \in EditorPayloads : ProviderCall("completion", payload)
    /\ UNCHANGED <<phase, language, editorRef, workerRef, isWorkerReadyState, isWorkerReady,
                   workerReadyRef, providerDisposables, registry, markers, document,
                   workersSpawned, workerVars, toClient>>
    /\ UNCHANGED renderVars

\* provideHover(model, position).
ProvideHover ==
    /\ phase = "mounted" /\ editorRef /\ language = "python"
    /\ registry["hover"] > 0
    /\ requestIdCounter < MaxRequests
    /\ \E payload \in EditorPayloads : ProviderCall("hover", payload)
    /\ UNCHANGED <<phase, language, editorRef, workerRef, isWorkerReadyState, isWorkerReady,
                   workerReadyRef, providerDisposables, registry, markers, document,
                   workersSpawned, workerVars, toClient>>
    /\ UNCHANGED renderVars

\* Mutant of ChangeCall: the isWorkerReady test is missing.
ChangeCallNoGate(value) ==
    IF value # 0
    THEN /\ callWorker(workerRef, "analyze", [code |-> value])
         /\ adapterResult' = IF workerRef = 0 THEN "null" ELSE "sent"
    ELSE /\ adapterResult' = "default"
         /\ UNCHANGED <<requestIdCounter, pendingRequests, timers, settled, toWorker>>

\* The gate of handleEditorChange and its analyze call.
ChangeCall(value) ==
    IF isWorkerReady /\ value # 0
    THEN /\ callWorker(workerRef, "analyze", [code |-> value])
         /\ adapterResult' = IF workerRef = 0 THEN "null" ELSE "sent"
    ELSE /\ adapterResult' = "default"
         /\ UNCHANGED <<requestIdCounter, pendingRequests, timers, settled, toWorker>>

\* handleEditorChange(value): the content changed to value (0: empty or undefined).
HandleEditorChange ==
    /\ phase = "mounted" /\ editorRef
    /\ requestIdCounter < MaxRequests
    /\ \E value \in {0} \cup Codes :
         /\ value # document
         /\ document' = value
         /\ ChangeCall(value)
    /\ UNCHANGED <<phase, language, editorRef, workerRef, isWorkerReadyState, isWorkerReady,
                   workerReadyRef, providerDisposables, registry, markers, workersSpawned,
                   workerVars, toClient>>
    /\ UNCHANGED renderVars

----------------------------------------------------------------------------
\* The assembled system: one component instance and the workers it spawns.

Init ==
    /\ phase = "new"
    /\ language = "python"
    /\ editorRef = FALSE
    /\ workerRef = 0
    /\ isWorkerReadyState = FALSE
    /\ isWorkerReady = FALSE
    /\ workerReadyRef = FALSE
    /\ requestIdCounter = 0
    /\ pendingRequests = {}
    /\ timers = {}
    /\ settled = <<>>
    /\ providerDisposables = <<>>
    /\ registry = [k \in ProviderKinds |-> 0]
    /\ markers = <<>>
    /\ document = 1
    /\ adapterResult = "none"
    /\ workersSpawned = 0
    /\ FreshWorker
    /\ NoCall

Next ==
    \/ \E lang \in Languages : Mount(lang)
    \/ \E lang \in Languages : LanguageChange(lang)
    \/ Unmount
    \/ Render
    \/ SyncReadyRef
    \/ EditorDidMount
    \/ ProvideCompletionItems
    \/ ProvideHover
    \/ HandleEditorChange
    \/ ClientReceive
    \/ Timeout
    \/ HandleInitialize
    \/ InitStep
    \/ HandleAnalysis
    \/ RunDone

Spec == Init /\ [][Next]_vars

----------------------------------------------------------------------------
\* The worker alone, driven by any sequence of requests with distinct requestIds.

RequestTypes == KnownTypes \cup {"unknown"}

PayloadsOf(type) ==
    CASE type = "analyze" -> CodePayloads
      [] type \in {"completion", "hover", "definition"} -> CursorPayloads
      [] OTHER -> {NoPayload}

\* A message event delivered to the worker: any WorkerRequest, or one of no known type.
PostRequest ==
    /\ requestIdCounter < MaxRequests
    /\ \E type \in RequestTypes : \E data \in PayloadsOf(type) :
         /\ requestIdCounter' = requestIdCounter + 1
         /\ toWorker' = Append(toWorker,
                [type |-> type, data |-> data, requestId |-> <<type, requestIdCounter + 1>>])
    /\ UNCHANGED <<phase, language, editorRef, workerRef, isWorkerReadyState, isWorkerReady,
                   workerReadyRef, pendingRequests, timers, settled, providerDisposables,
                   registry, markers, document, adapterResult, workersSpawned, workerVars,
                   toClient>>
    /\ UNCHANGED renderVars

WorkerInit ==
    /\ phase = "mounted"
    /\ language = "python"
    /\ editorRef = FALSE
    /\ workerRef = 1
    /\ isWorkerReadyState = FALSE
    /\ isWorkerReady = FALSE
    /\ workerReadyRef = FALSE
    /\ requestIdCounter = 0
    /\ pendingRequests = {}
    /\ timers = {}
    /\ settled = <<>>
    /\ providerDisposables = <<>>
    /\ registry = [k \in ProviderKinds |-> 0]
    /\ markers = <<>>
    /\ document = 1
    /\ adapterResult = "none"
    /\ workersSpawned = 1
    /\ FreshWorker
    /\ NoCall

WorkerSpecNext == PostRequest \/ WorkerNext

WorkerSpec == WorkerInit /\ [][WorkerSpecNext]_vars

\* The worker with its event loop running: a queued message event is dispatched, and a
\* handler whose awaited call has settled (it returns or throws) is resumed.
PostRequestBounded ==
    /\ requestIdCounter < MaxDelivered
    /\ PostRequest

WorkerFairNext == PostRequestBounded \/ WorkerNext

WorkerFairSpec ==
    /\ WorkerInit
    /\ [][WorkerFairNext]_vars
    /\ WF_vars(HandleInitialize)
    /\ WF_vars(InitStep)
    /\ WF_vars(HandleAnalysis)
    /\ WF_vars(RunDone)
    /\ WF_vars(HandleUnknown)

\* An initialized worker in which one hover call and one completion call are made:
\* the inference's outputs are the inputs, drawn from the bounded sets.
RenderInit ==
    /\ phase = "mounted"
    /\ language = "python"
    /\ editorRef = FALSE
    /\ workerRef = 1
    /\ isWorkerReadyState = FALSE
    /\ isWorkerReady = FALSE
    /\ workerReadyRef = FALSE
    /\ requestIdCounter = 0
    /\ pendingRequests = {}
    /\ timers = {}
    /\ settled = <<>>
    /\ providerDisposables = <<>>
    /\ registry = [k \in ProviderKinds |-> 0]
    /\ markers = <<>>
    /\ document = 1
    /\ adapterResult = "none"
    /\ workersSpawned = 1
    /\ pyodide = 1
    /\ jediInitialized = TRUE
    /\ loadPyodideFn = TRUE
    /\ runtimes = <<3>>
    /\ globals = UnsetGlobals
    /\ handlers = {}
    /\ toWorker = <<>>
    /\ toClient = <<>>
    /\ \/ parsed \in HoverResults \cup {NullData} /\ completions = <<>>
       \/ parsed = NullData /\ completions \in CandidateLists
    /\ hoverPayload = NullData
    /\ results = <<>>
    /\ returned = {}

RenderNext == GetHover \/ GetCompletions

RenderSpec == RenderInit /\ [][RenderNext]_vars

----------------------------------------------------------------------------
\* The component with a caller that hands callWorker a type outside the five kinds
\* (callWorker posts whatever type it is given), and the worker's default case.

CallUnknown ==
    /\ phase = "mounted"
    /\ requestIdCounter < MaxRequests
    /\ callWorker(workerRef, "unknown", NoPayload)
    /\ UNCHANGED <<phase, language, editorRef, workerRef, isWorkerReadyState, isWorkerReady,
                   workerReadyRef, providerDisposables, registry, markers, document,
                   adapterResult, workersSpawned, workerVars, toClient>>
    /\ UNCHANGED renderVars

UnknownNext == Next \/ CallUnknown \/ HandleUnknown

UnknownSpec == Init /\ [][UnknownNext]_vars

----------------------------------------------------------------------------
\* Properties

\* The requestIds of the requests waiting in the worker's queue or being handled.
Unanswered == {toWorker[i].requestId : i \in DOMAIN toWorker} \cup {h.requestId : h \in handlers}

\* C1 (WorkerSpec; the responses posted stay in toClient there): no two responses
\* carry the same requestId, and every response carries the requestId of a request
\* of a known type that was delivered and whose handler has finished, with the
\* response type of that request's type.
C1_OneCorrelatedResponse ==
    /\ \A i, j \in DOMAIN toClient : toClient[i].requestId = toClient[j].requestId => i = j
    /\ \A i \in DOMAIN toClient :
         /\ toClient[i].requestId[1] \in KnownTypes
         /\ toClient[i].requestId[2] \in 1..requestIdCounter
         /\ toClient[i].requestId \notin Unanswered
         /\ toClient[i].type = ResponseType(toClient[i].requestId[1])

\* Responses to an initialize, an analysis answered from the runtime and a third
\* request have been posted.
C1_Witness ==
    /\ Len(toClient) = 3
    /\ \E i \in DOMAIN toClient : toClient[i].type = "initialized"
    /\ \E i \in DOMAIN toClient :
         toClient[i].type \in {"completion", "definition"} /\ toClient[i].data # EmptyList

\* The initialize call made on the worker now attached is the last one made.
LatestInitialize(requestId) ==
    /\ requestId \in DOMAIN settled
    /\ requestId[1] = "initialize"
    /\ \A q \in DOMAIN settled : q[1] = "initialize" => q[2] <= requestId[2]

\* C2: in every step, no promise has been resolved more than once (the timeout
\* and the response never both resolve a call), and a response whose requestId
\* has no pending entry resolves nothing and leaves the pending table, the
\* promises and the timers as they were.
C2_ResolvedAtMostOnce ==
    [][/\ \A r \in DOMAIN settled' : Len(settled'[r]) <= 1
       /\ (ClientReceive /\ Head(toClient).requestId \notin pendingRequests)
             => UNCHANGED <<pendingRequests, settled, timers>>]_vars

\* The initialize call of the attached worker timed out, and its response arrived
\* afterwards: the call stays resolved to null while the message made the bridge ready.
C2_Witness ==
    /\ workerRef # 0
    /\ isWorkerReadyState
    /\ \E r \in DOMAIN settled : LatestInitialize(r) /\ settled[r] = <<NullResponse>>

\* C3, as claimed: a call whose timer is no longer armed and which got no response
\* is resolved to null and has no pending entry. The timer is armed at the call and
\* disarmed only by the response's resolver or by firing.
C3_TimedOutCallIsNull ==
    \A r \in DOMAIN settled : r \notin timers => (settled[r] # <<>> /\ r \notin pendingRequests)

\* C4, as claimed: the step that detaches the worker empties the pending table and
\* resolves every promise that was pending.
C4_TerminateResolvesPending ==
    [][(workerRef # 0 /\ workerRef' = 0)
          => (pendingRequests' = {} /\ \A r \in pendingRequests : settled'[r] # <<>>)]_vars

\* C5, as claimed: at most one runPythonAsync call is awaited at any time.
C5_RuntimeCallsSerialized == Cardinality(RuntimeCallsInProgress) <= 1

\* C6 (WorkerSpec): a step that handles an analyze, completion, hover or definition
\* request while no Initialize has succeeded (jediInitialized is false: nothing
\* loaded, a bootstrap in progress, or a failed one) posts that request's default
\* (empty list, null for hover) under its requestId, and calls nothing in the
\* runtime: no handler is left awaiting, the globals and the instances are untouched.
C6_DefaultBeforeInitialized ==
    [][(HandleAnalysis /\ ~jediInitialized)
          => /\ toClient' = Append(toClient,
                   DataResponse(Head(toWorker).type, Head(toWorker).requestId,
                                DefaultData(Head(toWorker).type)))
             /\ UNCHANGED <<handlers, globals, runtimes>>]_vars

\* A hover request was answered with null while a runtime was loaded but the
\* bootstrap had not completed.
C6_Witness ==
    /\ pyodide # 0
    /\ ~jediInitialized
    /\ \E i \in DOMAIN toClient : toClient[i].type = "hover" /\ toClient[i].data = NullData

\* The bridge is ready between the receipt of a successful initialized message and
\* the worker's termination.
BridgeReady == isWorkerReadyState

\* C7: a completion, hover or change adapter call made while the bridge is not
\* ready returns its default locally: nothing is posted, no requestId is allocated,
\* no pending entry and no timer is created.
C7_NotReadyShortCircuits ==
    [][(~BridgeReady /\ (ProvideCompletionItems \/ ProvideHover \/ HandleEditorChange))
          => /\ adapterResult' \in {"default", "null"}
             /\ UNCHANGED <<toWorker, requestIdCounter, pendingRequests, timers, settled>>]_vars

\* The first worker is attached and not ready, the document was changed to a
\* non-empty content, and the initialize request is still the only one ever made.
C7_Witness ==
    /\ workerRef = 1
    /\ ~BridgeReady
    /\ editorRef
    /\ document = 2
    /\ adapterResult = "default"
    /\ requestIdCounter = 1

\* C8 (WorkerSpec): a step that handles an Initialize request while jediInitialized
\* is true neither loads nor installs anything (no handler starts, the loader, the
\* runtime instance and its state are unchanged) and posts success = true under the
\* request's id; and whenever jediInitialized is true, an earlier Initialize was
\* answered with success = true.
C8_InitializeIdempotent ==
    [][/\ (HandleInitialize /\ jediInitialized)
             => /\ toClient' = Append(toClient, InitializedOk(Head(toWorker).requestId))
                /\ UNCHANGED <<handlers, pyodide, runtimes, loadPyodideFn, jediInitialized, globals>>
       /\ jediInitialized'
             => \E i \in DOMAIN toClient' : toClient'[i].type = "initialized" /\ toClient'[i].success]_vars

\* Two Initialize requests were answered with success by a worker holding one
\* runtime instance.
C8_Witness ==
    /\ Len(runtimes) = 1
    /\ \E i, j \in DOMAIN toClient :
         /\ i < j
         /\ toClient[i].type = "initialized" /\ toClient[i].success
         /\ toClient[j].type = "initialized" /\ toClient[j].success

\* An initialization attempt has failed (its response is in toClient under WorkerSpec).
SomeInitFailed == \E i \in DOMAIN toClient : toClient[i].type = "initialized" /\ ~toClient[i].success

NoInitInProgress == \A h \in handlers : h.type # "initialize"

\* The worker is in the state the spec calls Failed.
Failed == SomeInitFailed /\ NoInitInProgress /\ ~jediInitialized

\* C9, as claimed (WorkerSpec): from Failed no step starts the bootstrap again.
C9_FailedStaysFailed == [][Failed => NoInitInProgress']_vars

\* C9, amended (WorkerSpec): from Failed, every step that is not the handling of an
\* Initialize request leaves the worker Failed and its runtime untouched.
C9_FailedUntilInitialize ==
    [][(Failed /\ ~HandleInitialize) => (Failed' /\ UNCHANGED <<pyodide, runtimes, loadPyodideFn>>)]_vars

\* The worker is Failed and has since answered an analysis request.
C9_Witness ==
    /\ Failed
    /\ \E i, j \in DOMAIN toClient :
         /\ i < j
         /\ toClient[i].type = "initialized" /\ ~toClient[i].success
         /\ toClient[j].type # "initialized"

\* The handler h is no longer suspended after the step.
Finished(h) == h.requestId \notin {g.requestId : g \in handlers'}

IsInitFailure(message) == message.type = "initialized" /\ ~message.success

\* C10: a bootstrap step that ends initializeJedi without success posts exactly
\* one message, initialized with success = false and an error, under the
\* Initialize request's id, and ends the handler without starting the bootstrap
\* again; the bridge is not ready when that message arrives and not ready after
\* it; and the bridge is never ready while the attached worker is not initialized.
C10_InitFailureReportedOnce ==
    [][/\ (InitStep /\ ~jediInitialized')
             => \A h \in handlers :
                   Finished(h) => /\ toClient' = Append(toClient, InitializedFailed(h.requestId))
                                  /\ "error" \in DOMAIN toClient'[Len(toClient')]
                                  /\ handlers' = handlers \ {h}
       /\ (ClientReceive /\ IsInitFailure(Head(toClient)))
             => (~isWorkerReadyState /\ ~isWorkerReadyState')
       /\ isWorkerReadyState' => jediInitialized']_vars

\* The attached worker's initialize call was resolved with a failure message, the
\* worker holds no initialized runtime and runs no bootstrap, and the bridge is not ready.
C10_Witness ==
    /\ workerRef # 0
    /\ ~isWorkerReadyState
    /\ ~jediInitialized
    /\ handlers = {}
    /\ \E r \in DOMAIN settled :
         /\ LatestInitialize(r)
         /\ Len(settled[r]) = 1
         /\ settled[r][1].type = "initialized"
         /\ ~settled[r][1].success
         /\ "error" \in DOMAIN settled[r][1]

\* C11: in every step, (a) when the language leaves python or the component
\* unmounts while a worker is attached, that worker is terminated (its state and
\* both queues are gone), the worker handle is cleared and the ready state is
\* false; (b) when the language becomes python, the handle is a worker that never
\* existed before, in its fresh state, the only message sent to it is the
\* initialize request, and the ready state, its rendered value and the ref are all
\* false; (c) the ready state only turns true on a successful initialized message
\* taken from the attached worker, which has finished its initialization.
C11_LifecycleResetsReadiness ==
    [][/\ (workerRef # 0 /\ (language' # "python" \/ phase' = "unmounted"))
             => /\ workerRef' = 0
                /\ ~isWorkerReadyState'
                /\ pyodide' = 0 /\ ~jediInitialized' /\ handlers' = {}
                /\ toWorker' = <<>> /\ toClient' = <<>>
       /\ (language' = "python" /\ phase' = "mounted" /\ (phase = "new" \/ language # "python"))
             => /\ workerRef' > workersSpawned
                /\ workersSpawned' = workerRef'
                /\ pyodide' = 0 /\ ~jediInitialized' /\ handlers' = {}
                /\ Len(toWorker') = 1
                /\ toWorker'[1].type = "initialize"
                /\ toWorker'[1].requestId = <<"initialize", requestIdCounter'>>
                /\ toClient' = <<>>
                /\ ~isWorkerReadyState' /\ ~isWorkerReady' /\ ~workerReadyRef'
       /\ (~isWorkerReadyState /\ isWorkerReadyState')
             => /\ workerRef # 0
                /\ jediInitialized
                /\ toClient # <<>>
                /\ Head(toClient).type = "initialized"
                /\ Head(toClient).success]_vars

\* The first worker became ready, the language left python and came back, and the
\* second worker has reported success.
C11_Witness ==
    /\ workerRef = 2
    /\ isWorkerReadyState
    /\ <<"initialize", 1>> \in DOMAIN settled
    /\ settled[<<"initialize", 1>>] = <<InitializedOk(<<"initialize", 1>>)>>
    /\ settled[<<"initialize", 2>>] = <<InitializedOk(<<"initialize", 2>>)>>

\* C12: in every step that sends a request, the requestId it carries was never
\* generated before by this bridge and its counter part is larger than that of
\* every earlier requestId, whatever the kinds and however many workers were
\* terminated and spawned in between; the counter never decreases.
C12_RequestIdsDistinct ==
    [][/\ requestIdCounter' >= requestIdCounter
       /\ Len(toWorker') > Len(toWorker)
             => LET requestId == toWorker'[Len(toWorker')].requestId IN
                /\ requestId \notin DOMAIN settled
                /\ \A earlier \in DOMAIN settled : earlier[2] < requestId[2]
                /\ DOMAIN settled' = DOMAIN settled \cup {requestId}]_vars

\* Three requestIds of two kinds, the third generated for a second worker after the
\* first was terminated.
C12_Witness ==
    /\ workersSpawned = 2
    /\ DOMAIN settled = {<<"initialize", 1>>, <<"analyze", 2>>, <<"initialize", 3>>}

\* C13: in every step, an adapter call made while no worker is attached gets null
\* from callWorker and returns its default: the counter, the pending table, the
\* timers, the promises and the worker's queue are unchanged.
C13_NoWorkerResolvesNull ==
    [][((HandleEditorChange \/ ProvideCompletionItems \/ ProvideHover) /\ workerRef = 0)
          => /\ adapterResult' \in {"null", "default"}
             /\ UNCHANGED <<requestIdCounter, pendingRequests, timers, settled, toWorker>>]_vars

\* The gate of handleEditorChange was open on a stale rendered value after the
\* worker was detached, and callWorker returned null.
C13_Witness ==
    /\ workerRef = 0
    /\ adapterResult = "null"
    /\ toWorker = <<>>

\* C15: in every step, whatever calls are pending and in whatever order the
\* responses arrive, a delivered response resolves the pending call stored under
\* its own requestId and no other call (none when no pending call has that
\* requestId), so every value a call was resolved with is null or a response
\* carrying that call's requestId and the response type of its kind.
C15_CorrelatedByRequestId ==
    [][/\ ClientReceive
             => LET message == Head(toClient) IN
                \A r \in DOMAIN settled :
                    settled'[r] = IF r = message.requestId /\ r \in pendingRequests
                                  THEN Append(settled[r], message)
                                  ELSE settled[r]
       /\ \A r \in DOMAIN settled' : \A i \in DOMAIN settled'[r] :
             \/ settled'[r][i] = NullResponse
             \/ /\ settled'[r][i].requestId = r
                /\ settled'[r][i].type = ResponseType(r[1])]_vars

\* Two analysis calls were pending together and the response to the later one
\* arrived first: it resolved the later call while the earlier one is still pending.
C15_Witness ==
    \E r \in pendingRequests : \E q \in DOMAIN settled :
        /\ r[1] # "initialize"
        /\ r[2] < q[2]
        /\ settled[q] # <<>>
        /\ settled[q][1] # NullResponse
        /\ settled[q][1].requestId = q

\* C19, as claimed: whenever getRuntime returns a runtime, that instance has the
\* packages installed and the bootstrap's functions defined, whatever Initialize
\* requests were handled and however they overlapped.
C19_RuntimeReturnedIsBootstrapped ==
    getRuntime # 0 => runtimes[getRuntime] = 3

\* C20, as claimed: in every step in which an analysis call's runtime invocation
\* settles, the response posted is the kind's default or the value the Python
\* function computes from the code, line and column of that same request.
C20_ComputedFromOwnArguments ==
    [][RunDone
          => \E h \in handlers \ handlers' :
                toClient'[Len(toClient')].data \in
                    {DefaultData(h.type), PythonResult(h.type, SetGlobals(globals, h.type, h.data))}]_vars

\* C14, as claimed: a request of no known kind gets no response from the worker,
\* and once the timer of the call that sent it is no longer armed the call has been
\* resolved, once, to null.
C14_UnknownDroppedThenNull ==
    /\ \A i \in DOMAIN toClient : toClient[i].requestId[1] \in KnownTypes
    /\ \A r \in DOMAIN settled :
          (r[1] \notin KnownTypes /\ r \notin timers) => settled[r] = <<NullResponse>>

\* The responses posted so far that carry the n-th request's id.
ResponsesTo(n) == {i \in DOMAIN toClient : toClient[i].requestId[2] = n}

\* C18 (WorkerFairSpec: each await settles and the event loop keeps running): every
\* request of a known kind delivered to the worker is eventually answered, and from
\* then on there is exactly one response carrying its requestId, of the type that
\* corresponds to its kind (initialize: initialized, analyze: analysis, completion:
\* completion, hover: hover, definition: definition); when the runtime call throws
\* the response is still posted, with the kind's default.
C18_EveryRequestAnswered ==
    \A n \in 1..MaxDelivered :
        (\E i \in DOMAIN toWorker : toWorker[i].requestId[2] = n /\ toWorker[i].type \in KnownTypes)
           ~> [](/\ Cardinality(ResponsesTo(n)) = 1
                 /\ \A i \in ResponsesTo(n) :
                       /\ toClient[i].requestId[1] \in KnownTypes
                       /\ toClient[i].type = ResponseType(toClient[i].requestId[1]))

\* The worker initialized its one runtime, and a later analysis call that threw
\* was answered with the default of its kind.
C18_Witness ==
    /\ Len(runtimes) = 1 /\ runtimes[1] = 3 /\ jediInitialized
    /\ Unanswered = {}
    /\ \E j \in DOMAIN toClient : \E i \in DOMAIN toClient :
          /\ j < i
          /\ toClient[j].type = "initialized" /\ toClient[j].success
          /\ toClient[i].type # "initialized"
          /\ toClient[i].data = DefaultData(toClient[i].requestId[1])

\* C16: a non-null hover result's text is the header "**<name>** (<type>)" alone
\* when signature and docstring are both empty; otherwise it is the header, a
\* blank line, and then the signature alone, the docstring alone, or the signature,
\* a blank line and the docstring, according to which of the two are non-empty:
\* an empty field adds no section and no blank line.
C16_HoverText ==
    ("getHover" \in returned /\ hoverPayload # NullData)
       => LET header == <<"*", "*">> \o parsed.name \o <<"*", "*", " ", "(">> \o parsed.type \o <<")">>
              signature == parsed.signature
              docstring == parsed.docstring
          IN /\ hoverPayload.contents.kind = "markdown"
             /\ hoverPayload.contents.value =
                   CASE signature = <<>> /\ docstring = <<>> -> header
                     [] signature # <<>> /\ docstring = <<>> -> header \o <<"\n", "\n">> \o signature
                     [] signature = <<>> /\ docstring # <<>> -> header \o <<"\n", "\n">> \o docstring
                     [] OTHER -> header \o <<"\n", "\n">> \o signature \o <<"\n", "\n">> \o docstring

\* A hover result with an empty signature and a docstring has been rendered.
C16_Witness ==
    /\ "getHover" \in returned
    /\ hoverPayload # NullData
    /\ parsed.signature = <<>>
    /\ parsed.docstring # <<>>

\* C17, as claimed: the list a completion call returns has at most MAX_COMPLETIONS
\* items, and when the inference produced fewer candidates than that, the list
\* holds all of them in order.
C17_AtMostMaxAllWhenFewer ==
    /\ Len(results) <= MAX_COMPLETIONS
    /\ ("getCompletions" \in returned /\ Len(completions) < MAX_COMPLETIONS)
          => /\ Len(results) = Len(completions)
             /\ \A i \in DOMAIN results : results[i].name = completions[i]

\* C17, amended: the list a completion call returns has at most MAX_COMPLETIONS
\* items; it is either empty (an exception was raised while the list was built)
\* or made of the first MAX_COMPLETIONS candidates, all of them when there are
\* fewer, in the inference's order.
C17_AtMostMaxPrefixOrEmpty ==
    /\ Len(results) <= MAX_COMPLETIONS
    /\ "getCompletions" \in returned
          => \/ results = <<>>
             \/ /\ Len(results) = IF Len(completions) < MAX_COMPLETIONS
                                  THEN Len(completions) ELSE MAX_COMPLETIONS
                /\ \A i \in DOMAIN results : results[i].name = completions[i]

\* The inference produced more candidates than the maximum and the call returned
\* exactly the maximum.
C17_Witness ==
    /\ "getCompletions" \in returned
    /\ Len(completions) > MAX_COMPLETIONS
    /\ Len(results) = MAX_COMPLETIONS

\* C21: in every step, the ready state changes to true only when the bridge takes
\* an initialized message with success = true from the queue of the attached
\* worker; and every initialized message taken from that queue sets the ready
\* state to its success flag whether or not its requestId still has a pending
\* entry, so a success that arrives after the initialize call timed out (resolved
\* to null, entry deleted) still makes the bridge ready, and resolves nothing.
C21_ReadinessFollowsInitialized ==
    [][/\ (isWorkerReadyState' /\ ~isWorkerReadyState)
             => /\ ClientReceive
                /\ Head(toClient).type = "initialized"
                /\ Head(toClient).success
                /\ workerRef' = workerRef
       /\ (ClientReceive /\ Head(toClient).type = "initialized")
             => /\ isWorkerReadyState' = Head(toClient).success
                /\ Head(toClient).requestId \notin pendingRequests => settled' = settled]_vars

\* The attached worker's bootstrap outlasted the timeout: its initialize call is
\* resolved to null with no entry and no timer left, and the bridge is ready and
\* rendered ready.
C21_Witness ==
    /\ workerRef # 0
    /\ jediInitialized
    /\ isWorkerReadyState /\ isWorkerReady
    /\ \E r \in DOMAIN settled :
          /\ r = <<"initialize", requestIdCounter>>
          /\ settled[r] = <<NullResponse>>
          /\ r \notin pendingRequests \cup timers

\* C22, as claimed: whenever the editor is mounted and the language is python,
\* monaco holds exactly one completion provider and exactly one hover provider
\* registered by the component.
C22_ProvidersRegisteredForPython ==
    (phase = "mounted" /\ editorRef /\ language = "python")
       => \A kind \in ProviderKinds : registry[kind] = 1

\* The requestIds of analyze calls still pending, queued, being handled, or whose
\* response has not been taken yet.
AnalyzeInFlight ==
    {r \in pendingRequests : r[1] = "analyze"}
       \cup {r \in Unanswered : r[1] = "analyze"}
       \cup {toClient[i].requestId : i \in {j \in DOMAIN toClient : toClient[j].type = "analysis"}}

\* The diagnostics of a document content: none for the empty document, otherwise
\* what get_diagnostics computes from that code.
DiagnosticsOf(code) ==
    IF code = 0 THEN <<>> ELSE PythonResult("analyze", [UnsetGlobals EXCEPT !.user_code = code]).items

\* C23, as claimed: with the first worker still attached and at least one analyze
\* request sent (so the gate was open at that change and at every later one), once
\* no analyze request is in flight the markers on the model are the diagnostics of
\* the current document content, or none when the analysis of that content failed;
\* they are never those of an earlier content.
C23_MarkersOfLastChange ==
    (/\ workerRef = 1 /\ workersSpawned = 1
     /\ editorRef
     /\ \E r \in DOMAIN settled : r[1] = "analyze"
     /\ AnalyzeInFlight = {})
       => markers \in {DiagnosticsOf(document), <<>>}

====
